---- MODULE Spec2Model ----
(***************************************************************************)
(* A model of the RAPTOR engine of raptor-rs (src/src/lib.rs): the query   *)
(* state of Timetable::raptor, its round loop (route collection, route     *)
(* scan, footpath stage, early exit), reconstruct_journey and the result   *)
(* assembly, run over timetables given as data (route stop orders, trips   *)
(* with per-stop arrival/departure, footpaths) that answer the Timetable  *)
(* look-ups the way src/src/gtfs.rs and the examples do.                   *)
(***************************************************************************)
EXTENDS Integers, Sequences, FiniteSets, TLC

(***************************************************************************)
(* Types.  Tau is usize in the source; TLC's integers are 32 bits wide, so *)
(* the width is scaled: TauMax stands for Tau::MAX, the largest value of   *)
(* the type, and arithmetic on Tau wraps modulo TauMax + 1.                *)
(***************************************************************************)
TauMax == 1073741823

\* Option<Trip>::None.  A trip is <<route, index in the route's trip list>>.
NoTrip == <<0, 0>>

Min(a, b) == IF a <= b THEN a ELSE b

\* BTreeMap look-ups and insertion: a map is a function on its key set.
Get(m, key, default) == IF key \in DOMAIN m THEN m[key] ELSE default

Insert(m, key, v) == [x \in (DOMAIN m) \cup {key} |-> IF x = key THEN v ELSE m[x]]

EmptyMap == <<>>

\* Position of stop s in a stop sequence, 0 when it is not there.
PosOf(seq, s) == IF \E i \in DOMAIN seq : seq[i] = s
                 THEN CHOOSE i \in DOMAIN seq : seq[i] = s
                 ELSE 0

RECURSIVE Reverse(_)
Reverse(seq) == IF seq = <<>> THEN <<>> ELSE Append(Reverse(Tail(seq)), Head(seq))

\* The elements of a finite set of integers in ascending order (BTreeSet and
\* BTreeMap iterate in key order).
RECURSIVE Ascending(_)
Ascending(S) == IF S = {} THEN <<>>
                ELSE LET m == CHOOSE x \in S : \A y \in S : x <= y
                     IN <<m>> \o Ascending(S \ {m})

(***************************************************************************)
(* The Timetable look-ups.  T is a record:                                 *)
(*   stops  : the set of stops                                             *)
(*   order  : route -> sequence of stops (the route's stop order)          *)
(*   times  : route -> sequence of trips; a trip is a sequence, one        *)
(*            <<arrival, departure>> per position of the route             *)
(*   foot   : stop -> sequence of stops (footpaths_from)                   *)
(*   strict : TRUE when earliest_trip wants at < dep (examples simple.rs,  *)
(*            two_journeys.rs), FALSE when it wants at <= dep (gtfs.rs,    *)
(*            reconstruction_bugs.rs)                                      *)
(***************************************************************************)
get_routes_serving_stop(T, stop) ==
    {r \in DOMAIN T.order : PosOf(T.order[r], stop) # 0}

get_earlier_stop(T, route, left, right) ==
    LET l == PosOf(T.order[route], left)
        r == PosOf(T.order[route], right)
    IN  IF l # 0 /\ r # 0 THEN T.order[route][Min(l, r)]
        ELSE IF l # 0 THEN left
        ELSE IF r # 0 THEN right
        ELSE left

get_stops_after(T, route, stop) ==
    LET pos == PosOf(T.order[route], stop)
    IN  IF pos = 0 THEN <<>>
        ELSE SubSeq(T.order[route], pos, Len(T.order[route]))

get_arrival_time(T, trip, stop) ==
    LET pos == PosOf(T.order[trip[1]], stop)
    IN  IF pos = 0 THEN TauMax ELSE T.times[trip[1]][trip[2]][pos][1]

get_departure_time(T, trip, stop) ==
    LET pos == PosOf(T.order[trip[1]], stop)
    IN  IF pos = 0 THEN TauMax ELSE T.times[trip[1]][trip[2]][pos][2]

\* Mutant of Catches: a trip that leaves at the rider's time is missed.
CatchesLater(T, at, dep) == at < dep

\* Does a trip leaving at dep serve a rider who is at the stop at time at?
Catches(T, at, dep) == IF T.strict THEN at < dep ELSE at <= dep

get_earliest_trip(T, route, at, stop) ==
    LET pos  == PosOf(T.order[route], stop)
        ok   == {i \in DOMAIN T.times[route] :
                    Catches(T, at, T.times[route][i][pos][2])}
        best == CHOOSE i \in ok :
                    \A j \in ok :
                        \/ T.times[route][i][pos][2] < T.times[route][j][pos][2]
                        \/ /\ T.times[route][i][pos][2] = T.times[route][j][pos][2]
                           /\ i <= j
    IN  IF pos = 0 \/ ok = {} THEN NoTrip ELSE <<route, best>>

get_footpaths_from(T, stop) == T.foot[stop]

\* The walk time of the trait's default get_transfer_time.
DefaultTransferTime == 1

\* The walk time a timetable answers for every footpath: the trait's
\* default, or what an implementation that overrides the method returns.
get_transfer_time(T, from, to) == T.walk

(***************************************************************************)
(* Timetable::raptor, stage by stage.  The label maps are                  *)
(*   best_arrival_per_k : <<k, stop>> -> Tau      (tau*[k, s])             *)
(*   best_arrival       : stop -> Tau             (tau*[s])                *)
(*   board_detail_per_k : <<k, stop>> -> <<boarding stop, route>>  (B)     *)
(* and an absent key is an absent entry of the BTreeMap.                   *)
(***************************************************************************)

\* usize addition in a release build: wraps at the width of Tau.
TauAdd(a, b) == (a + b) % (TauMax + 1)

\* usize addition in a debug build: the sum does not fit and the call
\* panics.
Overflows(a, b) == a + b > TauMax

\* Mutant of QEntry: the entry stays the stop that was inserted first.
QEntryFirstSeen(T, Qm, route, marked_stop) ==
    Insert(Qm, route, Get(Qm, route, marked_stop))

\* Stage 1, one (marked stop, route) pair: Q.entry(route).or_insert(stop),
\* then the entry becomes the earlier of the two stops.
QEntry(T, Qm, route, marked_stop) ==
    Insert(Qm, route,
           get_earlier_stop(T, route, marked_stop, Get(Qm, route, marked_stop)))

RECURSIVE CollectForStop(_, _, _, _)
CollectForStop(T, Qm, marked_stop, routes) ==
    IF routes = <<>> THEN Qm
    ELSE CollectForStop(T, QEntry(T, Qm, Head(routes), marked_stop),
                        marked_stop, Tail(routes))

\* Stage 1 over the marked stops, visited in the order of the sequence stops.
RECURSIVE CollectQ(_, _, _)
CollectQ(T, Qm, stops) ==
    IF stops = <<>> THEN Qm
    ELSE CollectQ(T,
                  CollectForStop(T, Qm, Head(stops),
                                 Ascending(get_routes_serving_stop(T, Head(stops)))),
                  Tail(stops))

\* Mutant of Improves: an arrival equal to the bound counts.
ImprovesOnTie(arr, time_to_beat) == arr <= time_to_beat

\* Stage 2, the relaxation test: the held trip's arrival beats the bound.
Improves(arr, time_to_beat) == arr < time_to_beat

\* Stage 2, the pruning bound min(tau*[pi], tau*[pt]).
TimeToBeat(best, pi, pt) == Min(Get(best, pi, TauMax), Get(best, pt, TauMax))

\* Mutant of TraceEntry: the scan-start stop is stored.
TraceEntryScanStart(boarding_stop, p, route) == <<p, route>>

\* Stage 2, the entry written to the boarding trace for a stop reached on
\* route from the scan that started at p and last boarded at boarding_stop.
TraceEntry(boarding_stop, p, route) == <<boarding_stop, route>>

\* Stage 2, the board-update test: the previous round's label at pi is no
\* later than the held trip's departure there (no trip: Tau::MAX).
CanBoard(t_prev_pi, dep) == t_prev_pi <= dep

\* Stage 2, the label read for boarding in round k.
PrevLabel(bapk, k, pi) == Get(bapk, <<k - 1, pi>>, TauMax)

\* Mutant of ScanStop: the board-update runs before the relaxation.
ScanStopBoardFirst(T, pt, k, route, p, pi, sc) ==
    LET t_prev_pi == PrevLabel(sc.best_arrival_per_k, k, pi)
        dep == IF sc.current_trip # NoTrip
               THEN get_departure_time(T, sc.current_trip, pi)
               ELSE TauMax
        s1 == IF CanBoard(t_prev_pi, dep)
              THEN [sc EXCEPT
                      !.current_trip = get_earliest_trip(T, route, t_prev_pi, pi),
                      !.boarding_stop = pi]
              ELSE sc
        arr == get_arrival_time(T, s1.current_trip, pi)
    IN  IF /\ s1.current_trip # NoTrip
           /\ Improves(arr, TimeToBeat(s1.best_arrival, pi, pt))
        THEN [s1 EXCEPT
                !.board_detail_per_k =
                    Insert(@, <<k, pi>>, TraceEntry(s1.boarding_stop, p, route)),
                !.best_arrival_per_k = Insert(@, <<k, pi>>, arr),
                !.best_arrival = Insert(@, pi, arr),
                !.marked_stops = @ \cup {pi}]
        ELSE s1

\* Stage 2 at one stop pi of the scan of route that started at p.  sc is the
\* scan state: the held trip, its boarding stop, and the query maps.
ScanStop(T, pt, k, route, p, pi, sc) ==
    LET held    == sc.current_trip # NoTrip
        arr     == get_arrival_time(T, sc.current_trip, pi)
        improve == held /\ Improves(arr, TimeToBeat(sc.best_arrival, pi, pt))
        s1 == IF improve
              THEN [sc EXCEPT
                      !.board_detail_per_k =
                          Insert(@, <<k, pi>>, TraceEntry(sc.boarding_stop, p, route)),
                      !.best_arrival_per_k = Insert(@, <<k, pi>>, arr),
                      !.best_arrival = Insert(@, pi, arr),
                      !.marked_stops = @ \cup {pi}]
              ELSE sc
        t_prev_pi == PrevLabel(s1.best_arrival_per_k, k, pi)
        dep == IF held THEN get_departure_time(T, sc.current_trip, pi) ELSE TauMax
    IN  IF CanBoard(t_prev_pi, dep)
        THEN [s1 EXCEPT !.current_trip = get_earliest_trip(T, route, t_prev_pi, pi),
                        !.boarding_stop = pi]
        ELSE s1

RECURSIVE ScanStops(_, _, _, _, _, _, _)
ScanStops(T, pt, k, route, p, stops, sc) ==
    IF stops = <<>> THEN sc
    ELSE ScanStops(T, pt, k, route, p, Tail(stops),
                   ScanStop(T, pt, k, route, p, Head(stops), sc))

\* Stage 2 for one (route, p) of Q.  st holds the four query maps.
ScanRoute(T, pt, k, route, p, st) ==
    LET sc0 == [current_trip |-> NoTrip, boarding_stop |-> p,
                best_arrival_per_k |-> st.best_arrival_per_k,
                best_arrival |-> st.best_arrival,
                board_detail_per_k |-> st.board_detail_per_k,
                marked_stops |-> st.marked_stops]
        sc  == ScanStops(T, pt, k, route, p, get_stops_after(T, route, p), sc0)
    IN  [best_arrival_per_k |-> sc.best_arrival_per_k,
         best_arrival |-> sc.best_arrival,
         board_detail_per_k |-> sc.board_detail_per_k,
         marked_stops |-> sc.marked_stops]

\* Stage 3, one footpath stop -> p_dash in round k: the new tau*[k, p_dash].
FootLabel(T, bapk, k, stop, p_dash) ==
    Min(Get(bapk, <<k, p_dash>>, TauMax),
        TauAdd(Get(bapk, <<k, stop>>, TauMax), get_transfer_time(T, stop, p_dash)))

\* Stage 3 for one marked stop: fs = [bapk, more, overflow] after its
\* footpaths; overflow tells whether a sum of the stage did not fit.
RECURSIVE FootFromStop(_, _, _, _, _)
FootFromStop(T, k, stop, targets, fs) ==
    IF targets = <<>> THEN fs
    ELSE FootFromStop(T, k, stop, Tail(targets),
            [bapk |-> Insert(fs.bapk, <<k, Head(targets)>>,
                             FootLabel(T, fs.bapk, k, stop, Head(targets))),
             more |-> fs.more \cup {Head(targets)},
             overflow |-> fs.overflow
                          \/ Overflows(Get(fs.bapk, <<k, stop>>, TauMax),
                                       get_transfer_time(T, stop, Head(targets)))])

RECURSIVE FootFromStops(_, _, _, _)
FootFromStops(T, k, stops, fs) ==
    IF stops = <<>> THEN fs
    ELSE FootFromStops(T, k, Tail(stops),
            FootFromStop(T, k, Head(stops), get_footpaths_from(T, Head(stops)), fs))

\* Stage 3: every footpath of every marked stop, then marked_stops.extend.
FootStage(T, k, st) ==
    LET fs == FootFromStops(T, k, Ascending(st.marked_stops),
                            [bapk |-> st.best_arrival_per_k, more |-> {},
                             overflow |-> FALSE])
    IN  [st EXCEPT !.best_arrival_per_k = fs.bapk,
                   !.marked_stops = @ \cup fs.more]

\* Stage 3 adds a walk time to a label and the sum does not fit in Tau.
FootStageOverflows(T, k, st) ==
    FootFromStops(T, k, Ascending(st.marked_stops),
                  [bapk |-> st.best_arrival_per_k, more |-> {},
                   overflow |-> FALSE]).overflow

\* Stage 2 for every route of Q, in key order.
RECURSIVE ScanRoutes(_, _, _, _, _, _)
ScanRoutes(T, pt, k, Qm, routes, st) ==
    IF routes = <<>> THEN st
    ELSE ScanRoutes(T, pt, k, Qm, Tail(routes),
                    ScanRoute(T, pt, k, Head(routes), Qm[Head(routes)], st))

\* The body of the round loop up to the break test: stages 1 to 3 of round
\* k on the four query maps.
Round(T, pt, k, st) ==
    LET Qm == CollectQ(T, EmptyMap, Ascending(st.marked_stops))
        cleared == [st EXCEPT !.marked_stops = {}]
    IN  FootStage(T, k, ScanRoutes(T, pt, k, Qm, Ascending(DOMAIN Qm), cleared))

\* The round loop from round k to round transfers with no break.
RECURSIVE AllRounds(_, _, _, _, _)
AllRounds(T, pt, k, transfers, st) ==
    IF k > transfers THEN st
    ELSE AllRounds(T, pt, k + 1, transfers, Round(T, pt, k, st))

(***************************************************************************)
(* reconstruct_journey and the result assembly.                            *)
(***************************************************************************)

\* The inner loop of reconstruct_journey from inner_k down to 1: the plan in
\* push order and the stop the trace ended at.
RECURSIVE TraceBack(_, _, _, _, _)
TraceBack(tree, ps, inner_k, parent, plan) ==
    IF inner_k < 1 \/ parent = ps \/ <<inner_k, parent>> \notin DOMAIN tree
    THEN [plan |-> plan, parent |-> parent]
    ELSE LET e == tree[<<inner_k, parent>>]
         IN  TraceBack(tree, ps, inner_k - 1, e[1], Append(plan, <<e[2], e[1]>>))

\* Mutants of Accepted: the end of the trace is not tested; an empty plan
\* is kept.
AcceptedAnyEnd(plan, parent, ps) == plan # <<>>

AcceptedEvenEmpty(plan, parent, ps) == parent = ps

\* A traced plan is kept when it is not empty and the trace ended at ps.
Accepted(plan, parent, ps) == plan # <<>> /\ parent = ps

\* The outer loop of reconstruct_journey for k = from..transfers.
RECURSIVE PlansFrom(_, _, _, _, _)
PlansFrom(tree, ps, pt, from, transfers) ==
    IF from > transfers THEN <<>>
    ELSE LET t == TraceBack(tree, ps, from, pt, <<>>)
         IN  (IF Accepted(t.plan, t.parent, ps) THEN <<Reverse(t.plan)>> ELSE <<>>)
             \o PlansFrom(tree, ps, pt, from + 1, transfers)

reconstruct_journey(tree, ps, pt, transfers) ==
    IF DOMAIN tree = {} THEN <<>> ELSE PlansFrom(tree, ps, pt, 1, transfers)

\* Mutant of ArrivalKey: the label of the round before is read.
ArrivalKeyRoundBefore(plan, pt) == <<Len(plan) - 1, pt>>

\* The key of the arrival label paired with a plan.
ArrivalKey(plan, pt) == <<Len(plan), pt>>

\* The result assembly: every plan with its arrival; the unwrap() of a
\* missing label panics.
Journeys(plans, bapk, pt) ==
    [i \in DOMAIN plans |->
        [plan |-> plans[i], arrival |-> bapk[ArrivalKey(plans[i], pt)]]]

UnwrapFails(plans, bapk, pt) ==
    \E i \in DOMAIN plans : ArrivalKey(plans[i], pt) \notin DOMAIN bapk

(***************************************************************************)
(* Timetables.  The three example timetables of the repository, and a      *)
(* family of small timetables: two routes over four stops, trips that run  *)
(* at a constant pace from a start time (so trips of a route never         *)
(* overtake), and at most one footpath.                                    *)
(***************************************************************************)

\* The largest k_max the family is queried with.
MaxK == 3

Stops == 1 .. 4

\* The first departures of the trips of a route of the family (both routes
\* run one trip, or both run two), and the time a trip takes from one stop
\* of its route to the next.
TripStarts == {{0}, {0, 4}}

\* <<leg of route 1, leg of route 2>>: one route is the fast one.
LegPairs == {<<1, 3>>, <<3, 1>>}

NoFoot(stops) == [s \in stops |-> <<>>]

\* examples/simple.rs: one route 0 over stops 0..9, one trip with
\* arr(s) = 10 s and dep(s) = 10 s + 5.
SingleRoute ==
    [stops  |-> 0 .. 9,
     order  |-> (0 :> [i \in 1 .. 10 |-> i - 1]),
     times  |-> (0 :> << [i \in 1 .. 10 |-> <<10 * (i - 1), 10 * (i - 1) + 5>>] >>),
     foot   |-> NoFoot(0 .. 9),
     walk   |-> DefaultTransferTime,
     strict |-> TRUE]

\* examples/two_journeys.rs: r0 (route 0) over stops 0..9, r1 (route 1) over
\* 2, 10, 11, 9 with arr = (position + 2) * 10, dep = arr + 5; footpath 2 -> 2.
TwoRoutes ==
    [stops  |-> 0 .. 11,
     order  |-> (0 :> [i \in 1 .. 10 |-> i - 1]) @@ (1 :> <<2, 10, 11, 9>>),
     times  |-> (0 :> << [i \in 1 .. 10 |-> <<10 * (i - 1), 10 * (i - 1) + 5>>] >>)
                @@ (1 :> << [i \in 1 .. 4 |-> <<(i + 1) * 10, (i + 1) * 10 + 5>>] >>),
     foot   |-> [s \in 0 .. 11 |-> IF s = 2 THEN <<2>> ELSE <<>>],
     walk   |-> DefaultTransferTime,
     strict |-> TRUE]

\* examples/reconstruction_bugs.rs: stops A, B, C, D, S are 1, 2, 3, 4, 5 (the
\* order of the characters), routes R1, R2, R3 are 1, 2, 3.  R3's trips in
\* the order get_earliest_trip tries them: T2 (early), then T1 (late).
StopA == 1

StopB == 2

StopC == 3

StopD == 4

StopS == 5

Issue1Timetable ==
    [stops  |-> 1 .. 5,
     order  |-> (1 :> <<StopS, StopA>>) @@ (2 :> <<StopS, StopB>>)
                @@ (3 :> <<StopA, StopB, StopC, StopD>>),
     times  |-> (1 :> << <<<<TauMax, 0>>, <<100, 100>>>> >>)
                @@ (2 :> << <<<<TauMax, 0>>, <<30, 30>>>> >>)
                @@ (3 :> << <<<<TauMax, 25>>, <<30, 30>>, <<40, 40>>, <<50, 50>>>>,
                            <<<<TauMax, 105>>, <<110, 110>>, <<120, 120>>, <<130, 130>>>> >>),
     foot   |-> NoFoot(1 .. 5),
     walk   |-> DefaultTransferTime,
     strict |-> FALSE]

\* The queries the examples run, [transfers, tau, ps, pt], and beside each
\* the same query with no trip allowed and with the source as the target.
ExampleRuns ==
    { [tt |-> SingleRoute, query |-> [transfers |-> kk, tau |-> 0, ps |-> 0, pt |-> t]] :
          kk \in {0, 10}, t \in {0, 9} }
    \cup
    { [tt |-> TwoRoutes, query |-> [transfers |-> kk, tau |-> 0, ps |-> 1, pt |-> t]] :
          kk \in {0, 10}, t \in {1, 9} }
    \cup
    { [tt |-> Issue1Timetable,
       query |-> [transfers |-> kk, tau |-> 0, ps |-> StopS, pt |-> t]] :
          kk \in {0, 3}, t \in {StopS, StopD} }

\* Stop orders of the family's routes: two or three distinct stops.
Shapes ==
    {<<a, b>> : a, b \in Stops} \cup {<<a, b, c>> : a, b, c \in Stops}

Distinct(seq) == \A i, j \in DOMAIN seq : i # j => seq[i] # seq[j]

RouteShapes == {sh \in Shapes : Distinct(sh)}

\* A trip over n stops that starts at time start and takes leg per hop.
PacedTrip(start, leg, n) ==
    [i \in 1 .. n |-> <<start + (i - 1) * leg, start + (i - 1) * leg>>]

\* The trips of a route, sorted by first departure.
PacedTrips(starts, leg, n) ==
    LET sorted == Ascending(starts)
    IN  [i \in DOMAIN sorted |-> PacedTrip(sorted[i], leg, n)]

\* Footpath choices <<from, to>>: none (<<0, 0>>), or one footpath.  Queries
\* of the family go from stop 1 to stop 2 and stops 3 and 4 are
\* interchangeable, so the footpaths are listed up to exchanging 3 and 4.
FootChoices ==
    {<<0, 0>>, <<1, 2>>, <<1, 3>>, <<2, 1>>, <<2, 3>>, <<3, 1>>, <<3, 2>>, <<3, 4>>}

FamilyTimetable(sh1, sh2, starts, legs, f) ==
    [stops  |-> Stops,
     order  |-> (1 :> sh1) @@ (2 :> sh2),
     times  |-> (1 :> PacedTrips(starts, legs[1], Len(sh1)))
                @@ (2 :> PacedTrips(starts, legs[2], Len(sh2))),
     foot   |-> [s \in Stops |-> IF s = f[1] THEN <<f[2]>> ELSE <<>>],
     walk   |-> DefaultTransferTime,
     strict |-> FALSE]

(***************************************************************************)
(* The state machine: one raptor call, from the creation of the query      *)
(* state to the returned journeys.                                         *)
(***************************************************************************)
VARIABLES tt, query, best_arrival_per_k, best_arrival, board_detail_per_k,
          marked_stops, Q, pending, k, pc, result, previous

vars == <<tt, query, best_arrival_per_k, best_arrival, board_detail_per_k,
          marked_stops, Q, pending, k, pc, result, previous>>

\* previous is not state of the program: it records, for the calls that have
\* returned on this timetable, what each query returned.

\* The four query maps as one record, for the stage operators.
State == [best_arrival_per_k |-> best_arrival_per_k,
          best_arrival |-> best_arrival,
          board_detail_per_k |-> board_detail_per_k,
          marked_stops |-> marked_stops]

\* The query state raptor creates before the round loop; left is what an
\* earlier call on the same timetable ended with (nothing is kept of it).
NewArrivalPerK(q, left) == Insert(EmptyMap, <<0, q.ps>>, q.tau)

\* Mutant of NewBestArrival: the map of the earlier call is kept.
NewBestArrivalKept(left) == left

NewBestArrival(left) == EmptyMap

NewBoardDetail(left) == EmptyMap

NewMarked(q, left) == {q.ps}

NewState(q, left) ==
    [best_arrival_per_k |-> NewArrivalPerK(q, left.best_arrival_per_k),
     best_arrival |-> NewBestArrival(left.best_arrival),
     board_detail_per_k |-> NewBoardDetail(left.board_detail_per_k),
     marked_stops |-> NewMarked(q, left.marked_stops)]

\* No earlier call.
Nothing == [best_arrival_per_k |-> EmptyMap, best_arrival |-> EmptyMap,
            board_detail_per_k |-> EmptyMap, marked_stops |-> {}]

\* Where the call stands after the loop header for round kk.
LoopHead(kk, transfers) == IF kk <= transfers THEN "collect" ELSE "reconstruct"

\* Mutant of ShouldBreak: the loop also ends on a single marked stop.
ShouldBreakOnOne(marked) == Cardinality(marked) <= 1

\* The break test at the end of a round.
ShouldBreak(marked) == marked = {}

StartQuery(q) ==
    /\ query = q
    /\ best_arrival_per_k = NewState(q, Nothing).best_arrival_per_k
    /\ best_arrival = NewState(q, Nothing).best_arrival
    /\ board_detail_per_k = NewState(q, Nothing).board_detail_per_k
    /\ marked_stops = NewState(q, Nothing).marked_stops
    /\ Q = EmptyMap
    /\ pending = <<>>
    /\ k = 1
    /\ pc = LoopHead(1, q.transfers)
    /\ result = <<>>
    /\ previous = EmptyMap

InitExample ==
    \E run \in ExampleRuns :
        /\ tt = run.tt
        /\ StartQuery(run.query)

InitFamily ==
    \E sh1, sh2 \in RouteShapes, starts \in TripStarts, legs \in LegPairs,
       f \in FootChoices :
        /\ tt = FamilyTimetable(sh1, sh2, starts, legs, f)
        /\ \E transfers \in 1 .. MaxK :
              StartQuery([transfers |-> transfers, tau |-> 0, ps |-> 1, pt |-> 2])

Init == InitExample \/ InitFamily

\* Stage 1: Q.clear(), the route collection, marked_stops.clear().
CollectRoutes ==
    /\ pc = "collect"
    /\ Q' = CollectQ(tt, EmptyMap, Ascending(marked_stops))
    /\ pending' = Ascending(DOMAIN Q')
    /\ marked_stops' = {}
    /\ pc' = IF pending' = <<>> THEN "foot" ELSE "scan"
    /\ UNCHANGED <<tt, query, best_arrival_per_k, best_arrival, board_detail_per_k,
                   k, result, previous>>

\* Stage 2: the scan of the next route of Q, in key order.
ScanNextRoute ==
    /\ pc = "scan"
    /\ pending # <<>>
    /\ LET route == Head(pending)
           st == ScanRoute(tt, query.pt, k, route, Q[route], State)
       IN  /\ best_arrival_per_k' = st.best_arrival_per_k
           /\ best_arrival' = st.best_arrival
           /\ board_detail_per_k' = st.board_detail_per_k
           /\ marked_stops' = st.marked_stops
    /\ pending' = Tail(pending)
    /\ pc' = IF pending' = <<>> THEN "foot" ELSE "scan"
    /\ UNCHANGED <<tt, query, Q, k, result, previous>>

\* Stage 3: the footpaths of the stops marked by the scan.
Footpaths ==
    /\ pc = "foot"
    /\ LET st == FootStage(tt, k, State)
       IN  /\ best_arrival_per_k' = st.best_arrival_per_k
           /\ marked_stops' = st.marked_stops
    /\ pc' = "exit"
    /\ UNCHANGED <<tt, query, best_arrival, board_detail_per_k, Q, pending, k,
                   result, previous>>

\* The break on an empty marked set.
EarlyExit ==
    /\ pc = "exit"
    /\ ShouldBreak(marked_stops)
    /\ pc' = "reconstruct"
    /\ UNCHANGED <<tt, query, best_arrival_per_k, best_arrival, board_detail_per_k,
                   marked_stops, Q, pending, k, result, previous>>

\* The end of the loop body: on to round k + 1, or out of the loop.
NextRound ==
    /\ pc = "exit"
    /\ ~ShouldBreak(marked_stops)
    /\ k' = k + 1
    /\ pc' = LoopHead(k + 1, query.transfers)
    /\ UNCHANGED <<tt, query, best_arrival_per_k, best_arrival, board_detail_per_k,
                   marked_stops, Q, pending, result, previous>>

\* What the call returns from the final maps: the journeys, or the panic of
\* the unwrap() in the result assembly.
Outcome(tree, bapk, q) ==
    LET plans == reconstruct_journey(tree, q.ps, q.pt, q.transfers)
    IN  IF UnwrapFails(plans, bapk, q.pt)
        THEN [pc |-> "panic", result |-> <<>>]
        ELSE [pc |-> "done", result |-> Journeys(plans, bapk, q.pt)]

\* reconstruct_journey and the result assembly.
Reconstruct ==
    /\ pc = "reconstruct"
    /\ LET out == Outcome(board_detail_per_k, best_arrival_per_k, query)
       IN  pc' = out.pc /\ result' = out.result
    /\ UNCHANGED <<tt, query, best_arrival_per_k, best_arrival, board_detail_per_k,
                   marked_stops, Q, pending, k, previous>>

Next ==
    \/ CollectRoutes
    \/ ScanNextRoute
    \/ Footpaths
    \/ EarlyExit
    \/ NextRound
    \/ Reconstruct

Spec == Init /\ [][Next]_vars

(***************************************************************************)
(* Repeated calls on one timetable: when a call has returned, its outcome  *)
(* is recorded in previous and raptor is called again, its query state     *)
(* created while the maps of the call before are still what they were.     *)
(***************************************************************************)

\* The family's timetables that are queried repeatedly.
RepeatTimetables ==
    { FamilyTimetable(sh1, sh2, {0, 4}, <<1, 3>>, f) :
        sh1 \in RouteShapes, sh2 \in RouteShapes, f \in FootChoices }

\* The queries run on timetable T: those of its example, or two queries
\* that differ in k_max and in the target.
QueriesOf(T) ==
    IF T \in {SingleRoute, TwoRoutes, Issue1Timetable}
    THEN { run.query : run \in { r \in ExampleRuns : r.tt = T } }
    ELSE { [transfers |-> MaxK, tau |-> 0, ps |-> 1, pt |-> 2],
           [transfers |-> 1, tau |-> 0, ps |-> 1, pt |-> 3] }

InitRepeat ==
    \E T \in {SingleRoute, TwoRoutes, Issue1Timetable} \cup RepeatTimetables :
        /\ tt = T
        /\ \E q \in QueriesOf(T) : StartQuery(q)

\* The call has returned (or panicked and was caught); raptor is called
\* again on the same timetable.
Call ==
    /\ pc \in {"done", "panic"}
    /\ previous' = Insert(previous, query, [pc |-> pc, result |-> result])
    /\ \E q \in QueriesOf(tt) :
          /\ query' = q
          /\ best_arrival_per_k' = NewState(q, State).best_arrival_per_k
          /\ best_arrival' = NewState(q, State).best_arrival
          /\ board_detail_per_k' = NewState(q, State).board_detail_per_k
          /\ marked_stops' = NewState(q, State).marked_stops
          /\ pc' = LoopHead(1, q.transfers)
    /\ Q' = EmptyMap
    /\ pending' = <<>>
    /\ k' = 1
    /\ result' = <<>>
    /\ UNCHANGED tt

NextRepeat ==
    \/ CollectRoutes
    \/ ScanNextRoute
    \/ Footpaths
    \/ EarlyExit
    \/ NextRound
    \/ Reconstruct
    \/ Call

SpecRepeat == InitRepeat /\ [][NextRepeat]_vars

(***************************************************************************)
(* Calls on timetables whose times lie just below the infinity sentinel    *)
(* and whose get_transfer_time answers more than the default.  The sum of  *)
(* the footpath stage can then leave the range of Tau: a release build     *)
(* wraps (TauAdd), a debug build panics.  In the timetables of Spec and    *)
(* SpecRepeat every sum stays far below the sentinel.                       *)
(***************************************************************************)

\* The first departure of the late trips.
LateStart == TauMax - 4

\* The walk times the late timetables answer.
WalkTimes == {DefaultTransferTime, 2, 3}

\* Two routes with one trip each, one time unit per leg from LateStart, one
\* footpath at most, and walk time w.
LateTimetable(sh1, sh2, f, w) ==
    [stops  |-> Stops,
     order  |-> (1 :> sh1) @@ (2 :> sh2),
     times  |-> (1 :> PacedTrips({LateStart}, 1, Len(sh1)))
                @@ (2 :> PacedTrips({LateStart}, 1, Len(sh2))),
     foot   |-> [s \in Stops |-> IF s = f[1] THEN <<f[2]>> ELSE <<>>],
     walk   |-> w,
     strict |-> FALSE]

InitSentinel ==
    \E sh1, sh2 \in RouteShapes, f \in FootChoices, w \in WalkTimes :
        /\ tt = LateTimetable(sh1, sh2, f, w)
        /\ \E transfers \in 1 .. MaxK :
              StartQuery([transfers |-> transfers, tau |-> 0, ps |-> 1, pt |-> 2])

\* The footpath stage in a debug build when a sum does not fit: the
\* addition panics and the call ends.
OverflowPanic ==
    /\ pc = "foot"
    /\ FootStageOverflows(tt, k, State)
    /\ pc' = "panic"
    /\ UNCHANGED <<tt, query, best_arrival_per_k, best_arrival, board_detail_per_k,
                   marked_stops, Q, pending, k, result, previous>>

NextSentinel ==
    \/ CollectRoutes
    \/ ScanNextRoute
    \/ Footpaths
    \/ OverflowPanic
    \/ EarlyExit
    \/ NextRound
    \/ Reconstruct

SpecSentinel == InitSentinel /\ [][NextSentinel]_vars

(***************************************************************************)
(* Properties.                                                             *)
(***************************************************************************)

Finished == pc \in {"done", "panic"}

\* The trip a rider boards on route at stop b in round kk: the earliest one
\* that the label of round kk - 1 at b catches.
TripBoarded(kk, b, route) ==
    get_earliest_trip(tt, route, PrevLabel(best_arrival_per_k, kk, b), b)

\* The query of examples/reconstruction_bugs.rs.
Issue1Query == [transfers |-> 3, tau |-> 0, ps |-> StopS, pt |-> StopD]

\* C1: while round k scans its routes, every entry B[k, s] = (b, r) written
\* so far names the stop b where the trip that produced the label tau*[k, s]
\* was boarded: that trip is the one caught on r at b with tau*[k - 1, b], b
\* lies before s on r, and tau*[k, s] is its arrival at s.  On the network of
\* reconstruction_bugs.rs the query (3, 0, S, D) returns the single journey
\* [(R2, S), (R3, B)] with arrival 50.
C1_BoardingStopIsTripsStop ==
    /\ pc \in {"scan", "foot"} =>
          \A key \in DOMAIN board_detail_per_k :
              key[1] = k =>
                  LET b     == board_detail_per_k[key][1]
                      route == board_detail_per_k[key][2]
                      trip  == TripBoarded(k, b, route)
                  IN  /\ trip # NoTrip
                      /\ 0 < PosOf(tt.order[route], b)
                      /\ PosOf(tt.order[route], b) < PosOf(tt.order[route], key[2])
                      /\ best_arrival_per_k[key] = get_arrival_time(tt, trip, key[2])
    /\ (tt = Issue1Timetable /\ query = Issue1Query /\ pc \notin {"collect", "scan", "foot", "exit", "reconstruct"}) =>
          /\ pc = "done"
          /\ result = << [plan |-> <<<<2, StopS>>, <<3, StopB>>>>, arrival |-> 50] >>

\* C1 witness: in round 2 of the reconstruction_bugs.rs query the scan of R3
\* started at A, and D's entry names B, where the held trip was boarded.
C1_Witness ==
    /\ tt = Issue1Timetable /\ query = Issue1Query
    /\ pc = "foot" /\ k = 2
    /\ Q[3] = StopA
    /\ <<2, StopD>> \in DOMAIN board_detail_per_k
    /\ board_detail_per_k[<<2, StopD>>] = <<StopB, 3>>

(***************************************************************************)
(* The journeys the timetable allows, computed without the engine: the     *)
(* earliest arrival at every stop for a rider who leaves ps at tau, rides  *)
(* at most n trips and may walk any declared footpath before, between and  *)
(* after the trips.                                                        *)
(***************************************************************************)

\* The function f itself, evaluated once at all its arguments (TLC keeps a
\* function expression unevaluated until it is compared).
Evaluated(f) == IF f = <<>> THEN <<>> ELSE f

\* One pass over the footpaths: walk one footpath from any stop reached.
WalkOnce(E) ==
    Evaluated([s \in tt.stops |->
        LET from == {a \in tt.stops : E[a] < TauMax /\ PosOf(tt.foot[a], s) # 0}
            cand == {E[a] + get_transfer_time(tt, a, s) : a \in from}
        IN  IF cand = {} THEN E[s]
            ELSE Min(E[s], CHOOSE c \in cand : \A d \in cand : c <= d)])

\* Walk on until no footpath improves an arrival (walk times are positive).
RECURSIVE WalkAll(_)
WalkAll(E) == LET W == WalkOnce(E) IN IF W = E THEN E ELSE WalkAll(W)

\* The arrivals of one more trip: board any trip of any route at a stop
\* reached in time, leave it at a later stop of the route.
Boardable(E, r, t, i) ==
    /\ E[tt.order[r][i]] < TauMax
    /\ Catches(tt, E[tt.order[r][i]], tt.times[r][t][i][2])

RideOnce(E) ==
    Evaluated([s \in tt.stops |->
        LET cand == UNION { UNION { { tt.times[r][t][j][1] :
                                        j \in {jj \in DOMAIN tt.order[r] :
                                                 /\ tt.order[r][jj] = s
                                                 /\ \E i \in 1 .. (jj - 1) :
                                                        Boardable(E, r, t, i)} } :
                                    t \in DOMAIN tt.times[r] } :
                            r \in DOMAIN tt.order }
        IN  IF cand = {} THEN E[s]
            ELSE Min(E[s], CHOOSE c \in cand : \A d \in cand : c <= d)])

RECURSIVE Earliest(_)
Earliest(n) ==
    IF n = 0
    THEN WalkAll(Evaluated([s \in tt.stops |->
                               IF s = query.ps THEN query.tau ELSE TauMax]))
    ELSE LET before == Earliest(n - 1)
         IN  IF before = <<>> THEN before ELSE WalkAll(RideOnce(before))

\* C2: no journey the timetable allows with at most as many trips as a
\* returned journey has hops reaches pt before that journey's arrival.
C2_Pareto ==
    pc = "done" =>
        \A i \in DOMAIN result :
            Earliest(Len(result[i].plan))[query.pt] >= result[i].arrival

Reachable == Earliest(query.transfers)[query.pt] < TauMax

\* No route serves a stop reached from ps and also a stop pt is reached from:
\* ps and pt lie on disjoint routes and there is no footpath at all.
DisjointRoutes ==
    /\ \A s \in tt.stops : tt.foot[s] = <<>>
    /\ \A r \in DOMAIN tt.order :
          ~(PosOf(tt.order[r], query.ps) # 0 /\ PosOf(tt.order[r], query.pt) # 0)
    /\ \A r1, r2 \in DOMAIN tt.order :
          (PosOf(tt.order[r1], query.ps) # 0 /\ PosOf(tt.order[r2], query.pt) # 0)
              => \A i \in DOMAIN tt.order[r1] : PosOf(tt.order[r2], tt.order[r1][i]) = 0

\* C3: for a query with ps # pt, a target that the timetable allows to reach
\* within k_max trips and the declared footpaths gives a non-empty result, a
\* non-empty result means the target can be reached, and ps and pt on disjoint
\* routes with no footpaths give the empty result.
C3_EmptyIffUnreachable ==
    (pc = "done" /\ query.ps # query.pt) =>
        /\ Reachable => result # <<>>
        /\ result # <<>> => Reachable
        /\ DisjointRoutes => result = <<>>

\* The route and the boarding stop of hop i of journey j.
HopRoute(j, i) == j.plan[i][1]

HopStop(j, i) == j.plan[i][2]

\* Stop a lies on route r, and stop b lies on it after a.
LiesAfter(r, a, b) ==
    /\ PosOf(tt.order[r], a) > 0
    /\ PosOf(tt.order[r], a) < PosOf(tt.order[r], b)

\* C4: every returned journey starts at ps, every later boarding stop lies on
\* the route of the hop before it, after that hop's boarding stop, and pt
\* lies on the last hop's route after its boarding stop.
C4_HopContinuity ==
    pc = "done" =>
        \A n \in DOMAIN result :
            LET j == result[n]
            IN  /\ HopStop(j, 1) = query.ps
                /\ \A i \in 2 .. Len(j.plan) :
                       LiesAfter(HopRoute(j, i - 1), HopStop(j, i - 1), HopStop(j, i))
                /\ LiesAfter(HopRoute(j, Len(j.plan)), HopStop(j, Len(j.plan)),
                             query.pt)

\* C4 witness: a returned journey with a transfer.
C4_Witness ==
    /\ pc = "done"
    /\ \E n \in DOMAIN result :
          /\ Len(result[n].plan) >= 2
          /\ HopStop(result[n], 2) # query.ps

\* The trip of hop i of journey j: hop i is ridden in round i, on the trip
\* boarded at the hop's stop with the label of round i - 1.
HopTrip(j, i) == TripBoarded(i, HopStop(j, i), HopRoute(j, i))

\* C5: in every returned journey the trip of hop i - 1 arrives at the
\* boarding stop of hop i no later than the trip of hop i leaves it.
C5_NoTimeTravel ==
    pc = "done" =>
        \A n \in DOMAIN result :
            LET j == result[n]
            IN  \A i \in 2 .. Len(j.plan) :
                    /\ HopTrip(j, i - 1) # NoTrip
                    /\ HopTrip(j, i) # NoTrip
                    /\ get_arrival_time(tt, HopTrip(j, i - 1), HopStop(j, i))
                           <= get_departure_time(tt, HopTrip(j, i), HopStop(j, i))

\* The rounds the loop has entered once it is over.
RoundsReached ==
    IF pc \in {"reconstruct", "done", "panic"}
    THEN Min(k, query.transfers)
    ELSE 0

\* C6: after the round loop tau*[kk, s] <= tau*[kk - 1, s] for every round
\* kk that was reached and every stop, an absent label being infinity.
C6_MonotoneRounds ==
    \A kk \in 1 .. RoundsReached :
        \A s \in tt.stops :
            Get(best_arrival_per_k, <<kk, s>>, TauMax)
                <= Get(best_arrival_per_k, <<kk - 1, s>>, TauMax)

\* C8: the returned journeys have between 1 and k_max hops, and each has
\* strictly more hops than the one before it.
C8_IncreasingHops ==
    pc = "done" =>
        /\ \A n \in DOMAIN result : Len(result[n].plan) \in 1 .. query.transfers
        /\ \A n, m \in DOMAIN result :
               n < m => Len(result[n].plan) < Len(result[m].plan)

\* C8 witness: two journeys were returned.
C8_Witness == pc = "done" /\ Len(result) >= 2

\* The arrivals at pt of the trips a rider at ps at time tau can board for a
\* direct ride: for each route with pt after ps, its first trip that leaves
\* ps at or after tau.
DirectArrivals ==
    { tt.times[r][t][PosOf(tt.order[r], query.pt)][1] :
        <<r, t>> \in
            { x \in (DOMAIN tt.order) \X (1 .. 2) :
                /\ x[2] \in DOMAIN tt.times[x[1]]
                /\ LiesAfter(x[1], query.ps, query.pt)
                /\ tt.times[x[1]][x[2]][PosOf(tt.order[x[1]], query.ps)][2] >= query.tau } }

Least(S) == CHOOSE c \in S : \A d \in S : c <= d

FootpathInto(stop) == \E s \in tt.stops : PosOf(tt.foot[s], stop) # 0

\* C9 as claimed: with k_max >= 1 and a direct trip to board, the first
\* returned journey is one hop from ps and its arrival is the earliest
\* arrival of the direct trips; the examples return plan [(0, 0)] with
\* arrival 90 alone (simple.rs), and [(r0, 1)] with arrival 90 first
\* (two_journeys.rs).
C9_SingleHopEarliestDirect ==
    /\ (pc = "done" /\ query.transfers >= 1 /\ DirectArrivals # {}) =>
          /\ result # <<>>
          /\ Len(result[1].plan) = 1
          /\ HopStop(result[1], 1) = query.ps
          /\ LiesAfter(HopRoute(result[1], 1), query.ps, query.pt)
          /\ result[1].arrival = Least(DirectArrivals)
    /\ (Finished /\ tt = SingleRoute /\ query.transfers = 10 /\ query.pt = 9) =>
          result = << [plan |-> << <<0, 0>> >>, arrival |-> 90] >>
    /\ (Finished /\ tt = TwoRoutes /\ query.transfers = 10 /\ query.pt = 9) =>
          /\ Len(result) = 2
          /\ result[1] = [plan |-> << <<0, 1>> >>, arrival |-> 90]

\* C9 as amended: the arrival of the one-hop journey is at most the earliest
\* arrival of the direct trips, and equal to it when no footpath leads into
\* pt.
C9_SingleHopAtMostDirect ==
    /\ (pc = "done" /\ query.transfers >= 1 /\ DirectArrivals # {}) =>
          /\ result # <<>>
          /\ Len(result[1].plan) = 1
          /\ HopStop(result[1], 1) = query.ps
          /\ LiesAfter(HopRoute(result[1], 1), query.ps, query.pt)
          /\ result[1].arrival <= Least(DirectArrivals)
          /\ ~FootpathInto(query.pt) => result[1].arrival = Least(DirectArrivals)
    /\ (Finished /\ tt = SingleRoute /\ query.transfers = 10 /\ query.pt = 9) =>
          result = << [plan |-> << <<0, 0>> >>, arrival |-> 90] >>
    /\ (Finished /\ tt = TwoRoutes /\ query.transfers = 10 /\ query.pt = 9) =>
          /\ Len(result) = 2
          /\ result[1] = [plan |-> << <<0, 1>> >>, arrival |-> 90]

\* C9 witness: the one-hop journey is returned beside a journey with more
\* hops that arrives earlier.
C9_Witness ==
    /\ pc = "done" /\ DirectArrivals # {}
    /\ Len(result) >= 2
    /\ Len(result[1].plan) = 1
    /\ result[2].arrival < result[1].arrival

\* The maps, and what the call returns, had the loop run every round.
FullRun == AllRounds(tt, query.pt, 1, query.transfers, NewState(query, Nothing))

\* C7: when the call returns, its labels, its boarding trace and its result
\* are those of the loop run through all k_max rounds with no break; and
\* once the marked set is empty at the end of a round, the rounds after it
\* change no map.
C7_EarlyExitSound ==
    /\ Finished =>
          /\ best_arrival_per_k = FullRun.best_arrival_per_k
          /\ best_arrival = FullRun.best_arrival
          /\ board_detail_per_k = FullRun.board_detail_per_k
          /\ [pc |-> pc, result |-> result]
                 = Outcome(FullRun.board_detail_per_k, FullRun.best_arrival_per_k,
                           query)
    /\ (pc = "exit" /\ marked_stops = {}) =>
          AllRounds(tt, query.pt, k + 1, query.transfers, State) = State

\* C7 witness: the loop broke before its last round and a journey was
\* returned.
C7_Witness ==
    /\ pc = "done"
    /\ k < query.transfers
    /\ marked_stops = {}
    /\ result # <<>>

BeforeRoundOne == k = 1 /\ pc = "collect"

\* The loop is running.
InLoop == pc \in {"collect", "scan", "foot", "exit"}

\* C11: before round 1, tau*[0, ps] = tau and tau*[ps] = tau, every other
\* label is infinity, M = {ps} and B is empty; and in every round the
\* relaxation bound min(tau*[s], tau*[pt]) at s = ps is at most tau.
C11_Initialization ==
    /\ BeforeRoundOne =>
          /\ best_arrival_per_k = Insert(EmptyMap, <<0, query.ps>>, query.tau)
          /\ Get(best_arrival, query.ps, TauMax) = query.tau
          /\ \A s \in tt.stops \ {query.ps} : Get(best_arrival, s, TauMax) = TauMax
          /\ marked_stops = {query.ps}
          /\ board_detail_per_k = EmptyMap
    /\ InLoop => TimeToBeat(best_arrival, query.ps, query.pt) <= query.tau

\* C12: before round 1, every stop with a footpath from ps has
\* tau*[0, s'] = tau + transfer_time(ps, s') and is marked.
C12_RoundZeroFootpaths ==
    BeforeRoundOne =>
        \A i \in DOMAIN get_footpaths_from(tt, query.ps) :
            LET p_dash == get_footpaths_from(tt, query.ps)[i]
            IN  /\ Get(best_arrival_per_k, <<0, p_dash>>, TauMax)
                       = query.tau + get_transfer_time(tt, query.ps, p_dash)
                /\ p_dash \in marked_stops

\* The stops of M that route r serves, and the one of a set of stops of r
\* that comes first in r's stop order.
MarkedOn(r, M) == {s \in M : PosOf(tt.order[r], s) # 0}

EarliestOn(r, S) ==
    CHOOSE s \in S : \A u \in S : PosOf(tt.order[r], s) <= PosOf(tt.order[r], u)

\* The largest marked set whose visiting orders are all tried; a larger set
\* is visited in ascending and in descending order.
MaxPermuted == 4

VisitingOrders(M) ==
    IF Cardinality(M) <= MaxPermuted
    THEN { o \in [1 .. Cardinality(M) -> M] : \A s \in M : \E i \in DOMAIN o : o[i] = s }
    ELSE { Ascending(M), Reverse(Ascending(M)) }

\* C13: the route collection of every round leaves in Q exactly the routes
\* that serve a stop of M, each with the stop of M that comes first in its
\* stop order, whatever the order the marked stops are visited in, and
\* leaves M empty.
C13_RouteCollection ==
    [][CollectRoutes =>
          /\ DOMAIN Q' = {r \in DOMAIN tt.order : MarkedOn(r, marked_stops) # {}}
          /\ \A r \in DOMAIN Q' : Q'[r] = EarliestOn(r, MarkedOn(r, marked_stops))
          /\ \A o \in VisitingOrders(marked_stops) : CollectQ(tt, EmptyMap, o) = Q'
          /\ marked_stops' = {}]_vars

\* The stops marked at the end of the round before round k: those that hold
\* a label of that round.
MarkedBefore == {s \in tt.stops : <<k - 1, s>> \in DOMAIN best_arrival_per_k}

\* C13 witness: the collection has just run on a marked set of which a
\* route serves two stops, and the route's entry is not the stop that was
\* visited first.
C13_Witness ==
    /\ pc = "scan"
    /\ pending = Ascending(DOMAIN Q)
    /\ marked_stops = {}
    /\ \E r \in DOMAIN Q :
          \E s \in MarkedOn(r, MarkedBefore) :
              /\ s < Q[r]
              /\ PosOf(tt.order[r], Q[r]) < PosOf(tt.order[r], s)

\* The scan of route from p as a sequence of steps, one per stop: the stop,
\* and the scan state before and after it.
RECURSIVE ScanTrace(_, _, _, _)
ScanTrace(route, p, stops, sc) ==
    IF stops = <<>> THEN <<>>
    ELSE LET after == ScanStop(tt, query.pt, k, route, p, Head(stops), sc)
         IN  <<[pi |-> Head(stops), before |-> sc, after |-> after]>>
                 \o ScanTrace(route, p, Tail(stops), after)

\* The steps of the scan that is about to run.
NextScan ==
    IF pc = "scan" /\ pending # <<>>
    THEN ScanTrace(Head(pending), Q[Head(pending)],
                   get_stops_after(tt, Head(pending), Q[Head(pending)]),
                   [current_trip |-> NoTrip, boarding_stop |-> Q[Head(pending)],
                    best_arrival_per_k |-> best_arrival_per_k,
                    best_arrival |-> best_arrival,
                    board_detail_per_k |-> board_detail_per_k,
                    marked_stops |-> marked_stops])
    ELSE <<>>

\* At this step of a scan a trip is held.
Holding(step) == step.before.current_trip # NoTrip

HeldArrival(step) == get_arrival_time(tt, step.before.current_trip, step.pi)

\* The step left the labels, the trace and the marks as they were.
WritesNothing(step) ==
    /\ step.after.best_arrival_per_k = step.before.best_arrival_per_k
    /\ step.after.best_arrival = step.before.best_arrival
    /\ step.after.board_detail_per_k = step.before.board_detail_per_k
    /\ step.after.marked_stops = step.before.marked_stops

\* C14: at every stop s of every route scan, tau*[k, s], tau*[s], B[k, s]
\* and the mark of s are written when the held trip's arrival at s is
\* strictly less than tau*[s] and than tau*[pt] as they are at that moment,
\* and otherwise (no trip held, or an arrival equal to or above a bound)
\* no label, no trace entry and no mark changes.
C14_StrictTargetPruning ==
    \A n \in DOMAIN NextScan :
        LET step == NextScan[n]
            arr  == HeldArrival(step)
        IN  IF /\ Holding(step)
               /\ arr < Get(step.before.best_arrival, step.pi, TauMax)
               /\ arr < Get(step.before.best_arrival, query.pt, TauMax)
            THEN /\ step.after.best_arrival_per_k
                        = Insert(step.before.best_arrival_per_k, <<k, step.pi>>, arr)
                 /\ step.after.best_arrival
                        = Insert(step.before.best_arrival, step.pi, arr)
                 /\ DOMAIN step.after.board_detail_per_k
                        = DOMAIN step.before.board_detail_per_k \cup {<<k, step.pi>>}
                 /\ step.after.marked_stops = step.before.marked_stops \cup {step.pi}
            ELSE WritesNothing(step)

\* C14 witness: in the scan about to run, a held trip reaches a stop at
\* exactly tau*[pt] while tau*[s] of that stop is later, so only the
\* target bound prunes it.
C14_Witness ==
    \E n \in DOMAIN NextScan :
        /\ Holding(NextScan[n])
        /\ HeldArrival(NextScan[n])
               = Get(NextScan[n].before.best_arrival, query.pt, TauMax)
        /\ HeldArrival(NextScan[n])
               < Get(NextScan[n].before.best_arrival, NextScan[n].pi, TauMax)

\* C15: after the footpath stage of every round k, the all-round label of
\* every stop is no later than its label of any round 1 .. k (an absent
\* label being infinity), the stops reached on foot included.
C15_BestLabelInStep ==
    pc = "exit" =>
        \A s \in tt.stops :
            \A j \in 1 .. k :
                Get(best_arrival, s, TauMax)
                    <= Get(best_arrival_per_k, <<j, s>>, TauMax)

\* The loop is over: the maps are what reconstruct_journey and the result
\* assembly read.
LoopOver == pc \in {"reconstruct", "done", "panic"}

\* The trace reconstruct_journey makes from (kk, pt).
TraceFrom(kk) == TraceBack(board_detail_per_k, query.ps, kk, query.pt, <<>>)

\* C17: a plan accepted while tracing from (kk, pt) has exactly kk hops and
\* the label tau*[len(plan), pt] is defined, the result assembly never
\* panics on its lookup, and every returned journey carries that label as
\* its arrival.
C17_ArrivalLabelDefined ==
    /\ LoopOver =>
          \A kk \in 1 .. query.transfers :
              Accepted(TraceFrom(kk).plan, TraceFrom(kk).parent, query.ps) =>
                  /\ Len(TraceFrom(kk).plan) = kk
                  /\ <<Len(TraceFrom(kk).plan), query.pt>> \in DOMAIN best_arrival_per_k
    /\ pc # "panic"
    /\ pc = "done" =>
          \A i \in DOMAIN result :
              result[i].arrival
                  = best_arrival_per_k[<<Len(result[i].plan), query.pt>>]

\* C17 witness: the trace from (1, pt) was not accepted and a trace from a
\* later round was, and its journey was returned.
C17_Witness ==
    /\ pc = "done"
    /\ ~Accepted(TraceFrom(1).plan, TraceFrom(1).parent, query.ps)
    /\ \E i \in DOMAIN result : Len(result[i].plan) >= 2

\* C18: in every state, every trace entry B[kk, s] = (b, r) has kk >= 1, a
\* label tau*[kk, s], a label tau*[kk - 1, b] for its boarding stop, and b
\* strictly before s in r's stop order; and the footpath stage adds no
\* trace entry.
C18_WellFormedTrace ==
    /\ [](\A key \in DOMAIN board_detail_per_k :
            LET b == board_detail_per_k[key][1]
                r == board_detail_per_k[key][2]
            IN  /\ key[1] >= 1
                /\ key \in DOMAIN best_arrival_per_k
                /\ <<key[1] - 1, b>> \in DOMAIN best_arrival_per_k
                /\ LiesAfter(r, b, key[2]))
    /\ [][Footpaths => board_detail_per_k' = board_detail_per_k]_vars
    /\ [][DOMAIN board_detail_per_k' # DOMAIN board_detail_per_k
              => ScanNextRoute]_vars

\* C18 witness: the footpath stage has lowered the label of a stop that
\* holds a trace entry of the round, and the trace holds entries of two
\* rounds.
C18_Witness ==
    /\ pc = "exit"
    /\ \E s \in tt.stops :
          /\ <<k, s>> \in DOMAIN board_detail_per_k
          /\ best_arrival_per_k[<<k, s>>] < Get(best_arrival, s, TauMax)
    /\ \E key \in DOMAIN board_detail_per_k : key[1] < k

\* C16: in every footpath stage, every sum tau*[k, s] + transfer_time(s, s')
\* stays within Tau, so that no label wraps to a smaller value and the call
\* does not end in an overflow panic; the infinity sentinel is never a
\* summand because every stop the stage walks from holds a label of the
\* round.
C16_NoWrappedLabel ==
    /\ [](pc = "foot" =>
            /\ \A s \in marked_stops : <<k, s>> \in DOMAIN best_arrival_per_k
            /\ ~FootStageOverflows(tt, k, State))
    /\ [][~OverflowPanic]_vars

====
